---- MODULE Spec2Model ----
(***************************************************************************)
(* A model of src/Algorithm/DecisionTree.hpp: the binary decision-tree     *)
(* classifier (Node, DecisionTree::fit, DecisionTree::predict and the      *)
(* private helpers of the training algorithm).                             *)
(*                                                                         *)
(* Encodings                                                               *)
(*  - A double feature value is an integer count of halves (1.0 is 2,      *)
(*    1.5 is 3, 5.0 is 10).  The code only copies and compares feature     *)
(*    values (<=), so any order-preserving encoding is exact.              *)
(*  - A shared_ptr<Node> is an address into heap; NULL is the null         *)
(*    pointer.  make_shared takes the lowest free address; the node a      *)
(*    pointer owned is destroyed, with its children, when the last         *)
(*    pointer to it goes away.                                             *)
(*  - Entropy and information gain are irrational.  calculateEntropy(L)    *)
(*    is held as the exact rational 2^(|L| * H(L)) = |L|^|L| / prod c^c    *)
(*    (c the class counts), and calculateInformationGain(P, L, R) as       *)
(*    2^(|P| * gain) = E(P) / (E(L) * E(R)).  Within one buildTree call    *)
(*    |P| is fixed, so `infoGain > bestInfoGain` is the comparison of      *)
(*    these rationals, and the initial bestInfoGain 0.0 is the rational    *)
(*    1.  The comparison is the exact one; the code's double arithmetic    *)
(*    agrees with it on every label list of the sizes checked here         *)
(*    (two classes up to six rows, three classes up to four rows).         *)
(*  - Sequences are 1-based: row f of the code is row[f + 1] here;         *)
(*    featureIndex keeps the code's 0-based value.                         *)
(***************************************************************************)
EXTENDS Integers, Sequences, FiniteSets, TLC

VARIABLES
    data,      \* the caller's dataset: the `data` it passes to fit
    labels,    \* the caller's labels
    heap,      \* the Node objects alive, by address
    root,      \* DecisionTree::root
    pc,        \* "idle" (no call running) or "build" (inside fit)
    stack,     \* the buildTree activations of the running fit, innermost last
    retv,      \* the pointer the buildTree call that just returned handed back
    fdata,     \* the `data` argument of the most recent fit
    flabels,   \* the `labels` argument of the most recent fit
    nodesAtCall, \* the addresses alive when the most recent fit was called
    part,      \* per live node, the rows buildTree held when it made the node
    call       \* the most recent call on the object and what it returned

vars == <<data, labels, heap, root, pc, stack, retv, fdata, flabels, nodesAtCall, part, call>>

(***************************************************************************)
(* Bounds and input sets                                                   *)
(***************************************************************************)
MaxRows == 3

MaxRefitRows == 2

FeatureCounts == {1, 2}

Values == {2, 4}

Labels == {0, 1}

NULL == 0

NoFeature == -1

NoLabel == -1

Rows(F) == [1..F -> Values]

\* (d, l) is a dataset of the grid: 1..maxRows rows of F features, F in counts.
InGrid(d, l, maxRows, counts) ==
    \E n \in 1..maxRows, F \in counts :
        d \in [1..n -> Rows(F)] /\ l \in [1..n -> Labels]

\* The named scenarios of the specification's testable properties, and the
\* smallest datasets that need four rows.
BoundaryScenario == [data |-> <<<<2>>, <<4>>, <<6>>, <<8>>>>, labels |-> <<0, 0, 1, 1>>]

TieScenario == [data |-> <<<<10>>, <<10>>>>, labels |-> <<0, 1>>]

XorScenario ==
    [data |-> <<<<2, 2>>, <<2, 4>>, <<4, 2>>, <<4, 4>>>>, labels |-> <<0, 1, 1, 0>>]

ThreeClassTieScenario ==
    [data |-> <<<<10>>, <<10>>, <<10>>, <<10>>>>, labels |-> <<2, 1, 2, 1>>]

MajorityScenario ==
    [data |-> <<<<10>>, <<10>>, <<10>>>>, labels |-> <<1, 0, 1>>]

ScenarioDatasets ==
    {BoundaryScenario, TieScenario, XorScenario, ThreeClassTieScenario, MajorityScenario}

RefitScenarios == {TieScenario, MajorityScenario}

featureCount(d) == Len(d[1])

\* Every value of the training data, and for each a value strictly above it
\* and below the next: one sample per way a threshold test can come out.
Probes(d) ==
    UNION { {d[i][f], d[i][f] + 1} : i \in DOMAIN d, f \in 1..featureCount(d) }

Samples(d) == [1..featureCount(d) -> Probes(d)]

\* F of the value of v, with v evaluated once.
Once(v, F(_)) == CHOOSE r \in {F(x) : x \in {v}} : TRUE

(***************************************************************************)
(* Node and the heap                                                       *)
(***************************************************************************)
Node(isLeaf, label, featureIndex, threshold) ==
    [isLeaf |-> isLeaf, featureIndex |-> featureIndex, threshold |-> threshold,
     label |-> label, left |-> NULL, right |-> NULL]

FreeAddr(h) ==
    CHOOSE a \in 1..(Cardinality(DOMAIN h) + 1) :
        a \notin DOMAIN h /\ \A b \in 1..(a - 1) : b \in DOMAIN h

make_shared(h, node) ==
    [heap |-> [a \in DOMAIN h \cup {FreeAddr(h)} |-> IF a \in DOMAIN h THEN h[a] ELSE node],
     ptr |-> FreeAddr(h)]

RECURSIVE Owned(_, _)
Owned(h, a) ==
    IF a = NULL \/ a \notin DOMAIN h
    THEN {}
    ELSE {a} \cup Owned(h, h[a].left) \cup Owned(h, h[a].right)

\* The last shared_ptr to node a goes away: a and all it owns are destroyed.
Release(h, a) == [b \in DOMAIN h \ Owned(h, a) |-> h[b]]

(***************************************************************************)
(* Entropy and information gain, as exact rationals                        *)
(***************************************************************************)
RECURSIVE Pow(_, _)
Pow(b, e) == IF e = 0 THEN 1 ELSE b * Pow(b, e - 1)

RECURSIVE GCD(_, _)
GCD(a, b) == IF b = 0 THEN a ELSE Once(<<b, a % b>>, LAMBDA p : GCD(p[1], p[2]))

Frac(n, d) ==
    Once(<<n, d, GCD(n, d)>>, LAMBDA p : [num |-> p[1] \div p[3], den |-> p[2] \div p[3]])

\* a/b > c/d for positive a, b, c, d, by continued fractions (no products).
RECURSIVE FracGreater(_, _, _, _)
FracGreater(a, b, c, d) ==
    IF a \div b # c \div d THEN a \div b > c \div d
    ELSE IF a % b = 0 THEN FALSE
    ELSE IF c % d = 0 THEN TRUE
    ELSE \E p \in {<<d, c % d, b, a % b>>} : FracGreater(p[1], p[2], p[3], p[4])

Greater(x, y) == \E p \in {<<x, y>>} : FracGreater(p[1].num, p[1].den, p[2].num, p[2].den)

ZeroGain == [num |-> 1, den |-> 1]

labelCounts(ls) ==
    [c \in {ls[i] : i \in DOMAIN ls} |-> Cardinality({i \in DOMAIN ls : ls[i] = c})]

RECURSIVE ProdPow(_, _)
ProdPow(counts, classes) ==
    IF classes = {} THEN 1
    ELSE Once(CHOOSE x \in classes : \A y \in classes : x <= y,
              LAMBDA c : Pow(counts[c], counts[c]) * ProdPow(counts, classes \ {c}))

calculateEntropy(ls) ==
    Once(labelCounts(ls),
         LAMBDA counts : Frac(Pow(Len(ls), Len(ls)), ProdPow(counts, DOMAIN counts)))

\* The weighted child entropies, as one rational: E(L) * E(R).
childEntropy(leftEntropy, rightEntropy) ==
    Frac(leftEntropy.num * rightEntropy.num, leftEntropy.den * rightEntropy.den)

calculateInformationGain(parentLabels, leftLabels, rightLabels) ==
    Once(<<calculateEntropy(parentLabels),
           childEntropy(calculateEntropy(leftLabels), calculateEntropy(rightLabels))>>,
         LAMBDA e : Frac(e[1].num * e[2].den, e[1].den * e[2].num))

(***************************************************************************)
(* Splitting                                                               *)
(***************************************************************************)
GoesLeft(row, featureIndex, threshold) == row[featureIndex + 1] <= threshold

Indices(d) == [i \in 1..Len(d) |-> i]

LeftIndices(d, featureIndex, threshold) ==
    SelectSeq(Indices(d), LAMBDA i : GoesLeft(d[i], featureIndex, threshold))

RightIndices(d, featureIndex, threshold) ==
    SelectSeq(Indices(d), LAMBDA i : ~GoesLeft(d[i], featureIndex, threshold))

Gather(s, ix) == Once(<<s, ix>>, LAMBDA a : [k \in 1..Len(a[2]) |-> a[1][a[2][k]]])

splitLabels(d, ls, featureIndex, threshold) ==
    Once(<<featureIndex, threshold>>, LAMBDA t :
        [leftLabels |-> Gather(ls, LeftIndices(d, t[1], t[2])),
         rightLabels |-> Gather(ls, RightIndices(d, t[1], t[2]))])

\* A splitData that tests row[f] < t where splitLabels tests row[f] <= t.
splitDataStrict(d, ls, featureIndex, threshold) ==
    Once(<<SelectSeq(Indices(d), LAMBDA i : d[i][featureIndex + 1] < threshold),
           SelectSeq(Indices(d), LAMBDA i : ~(d[i][featureIndex + 1] < threshold))>>,
         LAMBDA ix :
            [leftData |-> Gather(d, ix[1]), leftLabels |-> Gather(ls, ix[1]),
             rightData |-> Gather(d, ix[2]), rightLabels |-> Gather(ls, ix[2])])

splitData(d, ls, featureIndex, threshold) ==
    Once(<<featureIndex, threshold>>, LAMBDA t :
        [leftData |-> Gather(d, LeftIndices(d, t[1], t[2])),
         leftLabels |-> Gather(ls, LeftIndices(d, t[1], t[2])),
         rightData |-> Gather(d, RightIndices(d, t[1], t[2])),
         rightLabels |-> Gather(ls, RightIndices(d, t[1], t[2]))])

(***************************************************************************)
(* Stopping rules                                                          *)
(***************************************************************************)
\* An isPure that compares the second label only.
isPureFirstTwo(ls) == Len(ls) >= 2 => ls[2] = ls[1]

isPure(ls) == \A i \in 2..Len(ls) : ls[i] = ls[1]

\* A majorityLabel scan that lets a later label of equal count win.
CountsOrTies(count, maxCount) == count >= maxCount

Counts(count, maxCount) == count > maxCount

RECURSIVE majorityScan(_, _, _, _)
majorityScan(counts, classes, maxCount, majority) ==
    IF classes = {} THEN majority
    ELSE Once(CHOOSE x \in classes : \A y \in classes : x <= y,
              LAMBDA label :
                IF Counts(counts[label], maxCount)
                THEN majorityScan(counts, classes \ {label}, counts[label], label)
                ELSE majorityScan(counts, classes \ {label}, maxCount, majority))

majorityLabel(ls) ==
    Once(labelCounts(ls),
         LAMBDA counts : majorityScan(counts, DOMAIN counts, 0, ls[1]))

(***************************************************************************)
(* The exhaustive split search of buildTree                                *)
(***************************************************************************)
\* Candidate k (0-based, in the order the nested loops visit them):
\* features outer, the node's rows inner.
\* A search whose outer loop stops one feature early.
NumCandidatesButLast(d) == (featureCount(d) - 1) * Len(d)

NumCandidates(d) == featureCount(d) * Len(d)

CandFeature(d, k) == k \div Len(d)

CandThreshold(d, k) == d[(k % Len(d)) + 1][CandFeature(d, k) + 1]

CandGain(d, ls, k) ==
    Once(splitLabels(d, ls, CandFeature(d, k), CandThreshold(d, k)),
         LAMBDA s : calculateInformationGain(ls, s.leftLabels, s.rightLabels))

\* A search that lets a later candidate of equal gain win.
ImprovesOrTies(infoGain, bestInfoGain) == ~Greater(bestInfoGain, infoGain)

Improves(infoGain, bestInfoGain) == Greater(infoGain, bestInfoGain)

RECURSIVE searchFrom(_, _, _, _)
searchFrom(d, ls, k, best) ==
    IF k >= NumCandidates(d) THEN best
    ELSE Once(<<k + 1,
                IF Improves(CandGain(d, ls, k), best.bestInfoGain)
                THEN [bestFeature |-> CandFeature(d, k),
                      bestThreshold |-> CandThreshold(d, k),
                      bestInfoGain |-> CandGain(d, ls, k)]
                ELSE best>>,
              LAMBDA n : searchFrom(d, ls, n[1], n[2]))

\* A search whose best gain starts below zero.
bestSplitFromBelow(d, ls) ==
    Once(<<d, ls>>,
         LAMBDA a : searchFrom(a[1], a[2], 0,
                        [bestFeature |-> NoFeature, bestThreshold |-> 0,
                         bestInfoGain |-> [num |-> 1, den |-> 2]]))

bestSplit(d, ls) ==
    Once(<<d, ls>>,
         LAMBDA a : searchFrom(a[1], a[2], 0,
                        [bestFeature |-> NoFeature, bestThreshold |-> 0,
                         bestInfoGain |-> ZeroGain]))

(***************************************************************************)
(* Node construction                                                       *)
(***************************************************************************)
\* A purity stop that leaves the constructor's label in the leaf.
unlabelledLeaf(label) == Node(TRUE, NoLabel, NoFeature, 0)

pureLeaf(label) == Node(TRUE, label, NoFeature, 0)

majorityLeaf(ls) == Node(TRUE, majorityLabel(ls), NoFeature, 0)

\* A node assembly that forgets the right child.
halfNode(bestFeature, bestThreshold, leftNode, rightNode) ==
    [Node(FALSE, NoLabel, bestFeature, bestThreshold) EXCEPT !.left = leftNode]

internalNode(bestFeature, bestThreshold, leftNode, rightNode) ==
    [Node(FALSE, NoLabel, bestFeature, bestThreshold)
        EXCEPT !.left = leftNode, !.right = rightNode]

\* What the read labels[0] can give: the first label, or, on an empty vector
\* (undefined behaviour), anything.
firstLabel(ls) == IF ls = <<>> THEN Labels \cup {NoLabel} ELSE {ls[1]}

(***************************************************************************)
(* Prediction                                                              *)
(***************************************************************************)
\* A descent that tests sample[f] < t.
RECURSIVE predictStrict(_, _, _)
predictStrict(h, node, sample) ==
    IF h[node].isLeaf THEN h[node].label
    ELSE IF sample[h[node].featureIndex + 1] < h[node].threshold
         THEN predictStrict(h, h[node].left, sample)
         ELSE predictStrict(h, h[node].right, sample)

RECURSIVE predictRecursive(_, _, _)
predictRecursive(h, node, sample) ==
    IF h[node].isLeaf THEN h[node].label
    ELSE IF GoesLeft(sample, h[node].featureIndex, h[node].threshold)
         THEN predictRecursive(h, h[node].left, sample)
         ELSE predictRecursive(h, h[node].right, sample)

predict(h, r, sample) == predictRecursive(h, r, sample)

(***************************************************************************)
(* The object's operations.  fit runs buildTree as a stack of activations: *)
(* one step per leaf made, per split taken, per child returned.            *)
(***************************************************************************)
Activation(d, ls, ix) ==
    [data |-> d, labels |-> ls, idx |-> ix, phase |-> "enter",
     bestFeature |-> NoFeature, bestThreshold |-> 0,
     leftData |-> <<>>, leftLabels |-> <<>>, leftIdx |-> <<>>,
     rightData |-> <<>>, rightLabels |-> <<>>, rightIdx |-> <<>>,
     leftNode |-> NULL]

Top == stack[Len(stack)]

Pop == SubSeq(stack, 1, Len(stack) - 1)

\* The deepest nesting the model follows: one more than the dataset is long.
StackCap == Len(fdata) + 1

Record(p, a, f) == [b \in DOMAIN p \cup {a} |-> IF b = a THEN f.idx ELSE p[b]]

Fresh ==
    /\ heap = <<>>
    /\ root = NULL
    /\ pc = "idle"
    /\ stack = <<>>
    /\ retv = NULL
    /\ fdata = <<>>
    /\ flabels = <<>>
    /\ nodesAtCall = {}
    /\ part = <<>>
    /\ call = [op |-> "none", sample |-> <<>>, ret |-> NoLabel]

\* A new DecisionTree, and the dataset its caller holds.
Init ==
    /\ \/ InGrid(data, labels, MaxRows, FeatureCounts)
       \/ \E ds \in ScenarioDatasets : data = ds.data /\ labels = ds.labels
    /\ Fresh

\* fit(data, labels): the call, up to the entry of buildTree.
FitCall ==
    /\ pc = "idle"
    /\ pc' = "build"
    /\ stack' = <<Activation(data, labels, Indices(data))>>
    /\ fdata' = data
    /\ flabels' = labels
    /\ nodesAtCall' = DOMAIN heap
    /\ call' = [op |-> "fit", sample |-> <<>>, ret |-> NoLabel]
    /\ UNCHANGED <<data, labels, heap, root, retv, part>>

\* buildTree: the purity stop.
BuildPureLeaf ==
    /\ pc = "build" /\ retv = NULL /\ stack # <<>>
    /\ Top.phase = "enter"
    /\ isPure(Top.labels)
    /\ \E label \in firstLabel(Top.labels) :
       \E m \in {make_shared(heap, pureLeaf(label))} :
            /\ heap' = m.heap
            /\ retv' = m.ptr
            /\ part' = Record(part, m.ptr, Top)
    /\ stack' = Pop
    /\ UNCHANGED <<data, labels, root, pc, fdata, flabels, nodesAtCall, call>>

\* buildTree: the split search found nothing that improves.
BuildMajorityLeaf ==
    /\ pc = "build" /\ retv = NULL /\ stack # <<>>
    /\ Top.phase = "enter"
    /\ ~isPure(Top.labels)
    /\ \E b \in {bestSplit(Top.data, Top.labels)} :
       /\ b.bestFeature = NoFeature
       /\ \E m \in {make_shared(heap, majorityLeaf(Top.labels))} :
            /\ heap' = m.heap
            /\ retv' = m.ptr
            /\ part' = Record(part, m.ptr, Top)
    /\ stack' = Pop
    /\ UNCHANGED <<data, labels, root, pc, fdata, flabels, nodesAtCall, call>>

\* The activation after its split is taken: the partitions are its locals.
Splitting(f, b, s, li, ri) ==
    [f EXCEPT !.phase = "left",
              !.bestFeature = b.bestFeature,
              !.bestThreshold = b.bestThreshold,
              !.leftData = s.leftData, !.leftLabels = s.leftLabels,
              !.rightData = s.rightData, !.rightLabels = s.rightLabels,
              !.leftIdx = [k \in 1..Len(s.leftData) |-> IF k <= Len(li) THEN li[k] ELSE 0],
              !.rightIdx = [k \in 1..Len(s.rightData) |-> IF k <= Len(ri) THEN ri[k] ELSE 0]]

\* buildTree: the split search, splitData, and the call for the left child.
BuildSplit ==
    /\ pc = "build" /\ retv = NULL /\ stack # <<>>
    /\ Top.phase = "enter"
    /\ ~isPure(Top.labels)
    /\ Len(stack) < StackCap
    /\ \E b \in {bestSplit(Top.data, Top.labels)} :
       /\ b.bestFeature # NoFeature
       /\ \E s \in {splitData(Top.data, Top.labels, b.bestFeature, b.bestThreshold)} :
          \E li \in {Gather(Top.idx, LeftIndices(Top.data, b.bestFeature, b.bestThreshold))} :
          \E ri \in {Gather(Top.idx, RightIndices(Top.data, b.bestFeature, b.bestThreshold))} :
          \E f \in {Splitting(Top, b, s, li, ri)} :
            stack' = Append(Append(Pop, f), Activation(f.leftData, f.leftLabels, f.leftIdx))
    /\ UNCHANGED <<data, labels, heap, root, pc, retv, fdata, flabels, nodesAtCall, part, call>>

\* buildTree: the left child is back; the call for the right child.
BuildLeftReturn ==
    /\ pc = "build" /\ retv # NULL /\ stack # <<>>
    /\ Top.phase = "left"
    /\ Len(stack) < StackCap
    /\ \E f \in {[Top EXCEPT !.phase = "right", !.leftNode = retv]} :
         stack' = Append(Append(Pop, f), Activation(f.rightData, f.rightLabels, f.rightIdx))
    /\ retv' = NULL
    /\ UNCHANGED <<data, labels, heap, root, pc, fdata, flabels, nodesAtCall, part, call>>

\* buildTree: the right child is back; the internal node is made and returned.
BuildRightReturn ==
    /\ pc = "build" /\ retv # NULL /\ stack # <<>>
    /\ Top.phase = "right"
    /\ \E m \in {make_shared(heap, internalNode(Top.bestFeature, Top.bestThreshold,
                                                Top.leftNode, retv))} :
          /\ heap' = m.heap
          /\ retv' = m.ptr
          /\ part' = Record(part, m.ptr, Top)
    /\ stack' = Pop
    /\ UNCHANGED <<data, labels, root, pc, fdata, flabels, nodesAtCall, call>>

\* A fit that keeps a tree it already has.
fitOnce(h, r, built) ==
    IF r = NULL THEN [heap |-> h, root |-> built]
    ELSE [heap |-> Release(h, built), root |-> r]

\* root = buildTree(...): the new tree replaces the old one, which is destroyed.
fit(h, r, built) == [heap |-> Release(h, r), root |-> built]

FitReturn ==
    /\ pc = "build" /\ retv # NULL /\ stack = <<>>
    /\ \E r \in {fit(heap, root, retv)} :
         /\ heap' = r.heap
         /\ root' = r.root
         /\ part' = [a \in DOMAIN r.heap |-> part[a]]
    /\ retv' = NULL
    /\ pc' = "idle"
    /\ UNCHANGED <<data, labels, stack, fdata, flabels, nodesAtCall, call>>

\* predict(sample), on a trained tree.
Predict ==
    /\ pc = "idle" /\ root # NULL
    /\ \E sample \in Samples(fdata) :
         call' = [op |-> "predict", sample |-> sample, ret |-> predict(heap, root, sample)]
    /\ UNCHANGED <<data, labels, heap, root, pc, stack, retv, fdata, flabels, nodesAtCall, part>>

Next ==
    \/ FitCall
    \/ BuildPureLeaf
    \/ BuildMajorityLeaf
    \/ BuildSplit
    \/ BuildLeftReturn
    \/ BuildRightReturn
    \/ FitReturn
    \/ Predict

Spec == Init /\ [][Next]_vars

(***************************************************************************)
(* A caller that fits one tree on one dataset after another.               *)
(***************************************************************************)
InitRefit ==
    /\ \/ InGrid(data, labels, MaxRefitRows, {1})
       \/ \E ds \in RefitScenarios : data = ds.data /\ labels = ds.labels
    /\ Fresh

\* The caller takes up another dataset, to pass to the next fit.
Reload ==
    /\ pc = "idle"
    /\ \/ InGrid(data', labels', MaxRefitRows, {1})
       \/ \E ds \in RefitScenarios : data' = ds.data /\ labels' = ds.labels
    /\ UNCHANGED <<heap, root, pc, stack, retv, fdata, flabels, nodesAtCall, part, call>>

NextRefit == Next \/ Reload

SpecRefit == InitRefit /\ [][NextRefit]_vars

(***************************************************************************)
(* fit is one synchronous call: once entered, it keeps running.            *)
(***************************************************************************)
BuildStep ==
    \/ BuildPureLeaf
    \/ BuildMajorityLeaf
    \/ BuildSplit
    \/ BuildLeftReturn
    \/ BuildRightReturn
    \/ FitReturn

FairSpec == Spec /\ WF_vars(BuildStep)

(***************************************************************************)
(* buildTree as the recursion it is, on a heap of its own: what fit gives  *)
(* on a DecisionTree that was never fitted before.                         *)
(***************************************************************************)
RECURSIVE buildTree(_, _, _)
buildTree(h, d, ls) ==
    IF isPure(ls) THEN make_shared(h, pureLeaf(ls[1]))
    ELSE LET b == bestSplit(d, ls)
         IN IF b.bestFeature = NoFeature
            THEN make_shared(h, majorityLeaf(ls))
            ELSE LET s == splitData(d, ls, b.bestFeature, b.bestThreshold)
                     leftNode == buildTree(h, s.leftData, s.leftLabels)
                     rightNode == buildTree(leftNode.heap, s.rightData, s.rightLabels)
                 IN make_shared(rightNode.heap,
                                internalNode(b.bestFeature, b.bestThreshold,
                                             leftNode.ptr, rightNode.ptr))

\* The tree below a pointer, without its addresses.
RECURSIVE TreeOf(_, _)
TreeOf(h, a) ==
    [isLeaf |-> h[a].isLeaf, label |-> h[a].label,
     featureIndex |-> h[a].featureIndex, threshold |-> h[a].threshold,
     kids |-> IF h[a].left = NULL /\ h[a].right = NULL THEN <<>>
              ELSE <<TreeOf(h, h[a].left), TreeOf(h, h[a].right)>>]

(***************************************************************************)
(* Vocabulary of the properties                                            *)
(***************************************************************************)
Trained == pc = "idle" /\ root # NULL

\* The nodes the most recent fit has made.
NewNodes == DOMAIN heap \ nodesAtCall

\* The step on which fit returns to its caller.
FitReturns == pc = "build" /\ pc' = "idle"

\* The nodes a step makes.
Made == DOMAIN heap' \ DOMAIN heap

\* The rows and labels buildTree held when it made node a.
RowsOf(a) == Gather(fdata, part[a])

LabelsOf(a) == Gather(flabels, part[a])

Range(q) == {q[i] : i \in DOMAIN q}

Features(d) == 0..(featureCount(d) - 1)

\* The gain of the candidate (feature f, threshold d[s][f]).
GainAt(d, ls, f, s) ==
    Once(splitLabels(d, ls, f, d[s][f + 1]),
         LAMBDA sp : calculateInformationGain(ls, sp.leftLabels, sp.rightLabels))

Improving(d, ls) ==
    \E p \in {<<d, ls>>} :
        \E f \in Features(p[1]), s \in DOMAIN p[1] :
            Greater(GainAt(p[1], p[2], f, s), ZeroGain)

Occurrences(ls, c) == Cardinality({i \in DOMAIN ls : ls[i] = c})

\* The most frequent label; the smallest of them when several are.
Mode(ls) ==
    CHOOSE c \in Range(ls) :
        \A e \in Range(ls) :
            \/ Occurrences(ls, e) < Occurrences(ls, c)
            \/ Occurrences(ls, e) = Occurrences(ls, c) /\ c <= e

Recall == \A i \in DOMAIN fdata : predict(heap, root, fdata[i]) = flabels[i]

\* Some tree of tests row[f] <= t classifies every row: two rows that differ
\* differ in a feature, and a test on it tells them apart, so such a tree
\* exists exactly when equal rows carry equal labels.
TreeSeparable(d, ls) == \A i, j \in DOMAIN d : d[i] = d[j] => ls[i] = ls[j]

\* One test row[f] <= t has one label on each side.
OneTestSeparable(d, ls) ==
    \E f \in Features(d), s \in DOMAIN d :
        \A i, j \in DOMAIN d :
            (d[i][f + 1] <= d[s][f + 1]) = (d[j][f + 1] <= d[s][f + 1]) => ls[i] = ls[j]

Leaves(h, r) == {a \in Owned(h, r) : h[a].isLeaf}

RECURSIVE Depth(_, _)
Depth(h, a) ==
    IF h[a].isLeaf THEN 0
    ELSE 1 + (IF Depth(h, h[a].left) >= Depth(h, h[a].right)
              THEN Depth(h, h[a].left) ELSE Depth(h, h[a].right))

\* The comparisons predict makes for a sample.
RECURSIVE Comparisons(_, _, _)
Comparisons(h, a, sample) ==
    IF h[a].isLeaf THEN 0
    ELSE 1 + Comparisons(h, IF sample[h[a].featureIndex + 1] <= h[a].threshold
                            THEN h[a].left ELSE h[a].right, sample)

(***************************************************************************)
(* C1  Training-set recall                                                 *)
(***************************************************************************)
\* C1 as claimed: after fit on a dataset that some tree of threshold tests
\* classifies correctly, predict returns every training row's own label.
C1_RecallWhenTreeSeparable ==
    (Trained /\ TreeSeparable(fdata, flabels)) => Recall

\* C1 amended: after fit on a dataset whose labels one single test
\* row[f] <= t separates (each side of the test carries one label), predict
\* returns every training row's own label.
C1_RecallWhenOneTestSeparable ==
    (Trained /\ OneTestSeparable(fdata, flabels)) => Recall

C1_Witness ==
    /\ Trained /\ OneTestSeparable(fdata, flabels) /\ ~isPure(flabels)
    /\ featureCount(fdata) = 2 /\ Len(fdata) = 3
    /\ ~heap[root].isLeaf /\ heap[root].featureIndex = 1

(***************************************************************************)
(* C2  Existence of an improving split                                     *)
(***************************************************************************)
\* C2 as claimed: a dataset with two distinct labels has a candidate of
\* gain > 0, and the root fit returns with is an internal node.
C2_TwoLabelsGiveInternalRoot ==
    [][(FitReturns /\ Cardinality(Range(flabels)) >= 2)
          => (Improving(fdata, flabels) /\ ~heap'[root'].isLeaf)]_vars

\* C2 amended: on a dataset with two distinct labels the root fit returns
\* with is an internal node exactly when some candidate has gain > 0; when
\* none has, the root is a leaf with the majority label.
C2_InternalRootIffImproving ==
    [][(FitReturns /\ Cardinality(Range(flabels)) >= 2)
          => \A improving \in {Improving(fdata, flabels)} :
                /\ improving <=> ~heap'[root'].isLeaf
                /\ ~improving => heap'[root'].label = Mode(flabels)]_vars

C2_Witness ==
    /\ Trained /\ Cardinality(Range(flabels)) >= 2
    /\ Improving(fdata, flabels) /\ ~heap[root].isLeaf
    /\ featureCount(fdata) = 2
    /\ ~\E s \in DOMAIN fdata : Greater(GainAt(fdata, flabels, 0, s), ZeroGain)

(***************************************************************************)
(* C3  Purity                                                              *)
(***************************************************************************)
\* C3: after fit on a dataset whose labels all equal L, the tree is one leaf
\* with label L and no children, and predict returns L for every sample.
C3_PureDatasetGivesOneLeaf ==
    (Trained /\ \A i \in DOMAIN flabels : flabels[i] = flabels[1])
        => /\ DOMAIN heap = {root}
           /\ heap[root].isLeaf
           /\ heap[root].label = flabels[1]
           /\ heap[root].left = NULL /\ heap[root].right = NULL
           /\ \A sample \in Samples(fdata) : predict(heap, root, sample) = flabels[1]

C3_Witness ==
    /\ Trained /\ Len(flabels) = 3 /\ \A i \in DOMAIN flabels : flabels[i] = 1
    /\ Cardinality(Range(fdata)) = 3
    /\ call.op = "predict" /\ call.ret = 1 /\ call.sample \notin Range(fdata)

(***************************************************************************)
(* C4  The tree is a function of the most recent fit's arguments           *)
(***************************************************************************)
FreshFit == buildTree(<<>>, fdata, flabels)

\* C4: whatever was fitted before, when fit(D, L) returns the tree is the
\* one a new DecisionTree gets from fit(D, L), and no node of an earlier tree
\* is left.
C4_TreeIsThatOfAFreshFit ==
    [][FitReturns
          => \A fresh \in {FreshFit} :
                /\ TreeOf(heap', root') = TreeOf(fresh.heap, fresh.ptr)
                /\ DOMAIN heap' = Owned(heap', root')
                /\ DOMAIN heap' \cap nodesAtCall = {}]_vars

\* A second fit, on another dataset than the tree before it came from.
C4_Witness ==
    /\ Trained /\ nodesAtCall # {}
    /\ Cardinality(nodesAtCall) = 3 /\ Cardinality(DOMAIN heap) = 1
    /\ heap[root].label = 1

(***************************************************************************)
(* C5  Node shape                                                          *)
(***************************************************************************)
Parents(h, a) == {b \in DOMAIN h : h[b].left = a \/ h[b].right = a}

NodeShape(h, a) ==
    IF h[a].isLeaf
    THEN h[a].left = NULL /\ h[a].right = NULL
    ELSE /\ h[a].left \in DOMAIN h /\ h[a].right \in DOMAIN h
         /\ h[a].left # h[a].right
         /\ h[a].featureIndex \in Features(fdata)

TreeShape ==
    /\ \A a \in NewNodes : NodeShape(heap, a) /\ Cardinality(Parents(heap, a)) <= 1
    /\ Trained => /\ DOMAIN heap = Owned(heap, root)
                  /\ Parents(heap, root) = {}

\* C5: every leaf fit makes has no children, every internal node has two
\* children and a feature index of the dataset, no node has two parents, the
\* root has none and owns every node; and a call that is not fit (predict)
\* leaves the tree as it is.
C5_TreeShapeAndPredictKeepsIt ==
    /\ []TreeShape
    /\ [][(pc = "idle" /\ pc' = "idle") => (heap' = heap /\ root' = root)]_vars

C5_Witness ==
    /\ Trained /\ Cardinality(DOMAIN heap) = 5
    /\ call.op = "predict"

(***************************************************************************)
(* C6  Split selection                                                     *)
(***************************************************************************)
\* Candidate (f, s) comes before (g, t) in the search: features outer, rows
\* inner.
Before(f, s, g, t) == f < g \/ (f = g /\ s < t)

\* Node a tests the first candidate of the largest gain, and that gain is > 0.
FirstBest(a) ==
    \E d \in {RowsOf(a)}, ls \in {LabelsOf(a)}, f \in {heap[a].featureIndex} :
    \E s \in DOMAIN d :
        /\ d[s][f + 1] = heap[a].threshold
        /\ \E chosen \in {GainAt(d, ls, f, s)} :
            /\ Greater(chosen, ZeroGain)
            /\ \A g \in Features(d), t \in DOMAIN d :
                \E other \in {GainAt(d, ls, g, t)} :
                    /\ ~Greater(other, chosen)
                    /\ Before(g, t, f, s) => Greater(chosen, other)

BoundaryInstance ==
    (Trained /\ fdata = BoundaryScenario.data /\ flabels = BoundaryScenario.labels)
        => /\ ~heap[root].isLeaf
           /\ heap[root].featureIndex = 0 /\ heap[root].threshold = 4
           /\ predict(heap, root, <<3>>) = 0
           /\ predict(heap, root, <<7>>) = 1

\* C6: every internal node buildTree makes tests the candidate of the largest
\* gain among the candidates of its rows, that gain is > 0, and of several
\* candidates with that gain it is the first the search visits.  For data
\* [[1],[2],[3],[4]], labels [0,0,1,1] the root tests feature 0 at 2.0,
\* predict([1.5]) is 0 and predict([3.5]) is 1.
C6_FirstCandidateOfLargestGain ==
    /\ [][\A a \in Made : ~heap'[a].isLeaf => FirstBest(a)']_vars
    /\ []BoundaryInstance

\* A root for which both features offer the largest gain.
C6_Witness ==
    /\ Trained /\ featureCount(fdata) = 2 /\ ~heap[root].isLeaf
    /\ heap[root].featureIndex = 0
    /\ \E s, t \in DOMAIN fdata :
         /\ fdata[s][1] = heap[root].threshold
         /\ ~Greater(GainAt(fdata, flabels, 0, s), GainAt(fdata, flabels, 1, t))
         /\ ~Greater(GainAt(fdata, flabels, 1, t), GainAt(fdata, flabels, 0, s))

(***************************************************************************)
(* C7  Majority fallback                                                   *)
(***************************************************************************)
\* Node a is a leaf with the majority label if its labels are not all equal
\* and none of its candidates improves.
MajorityFallback(a) ==
    \A ls \in {LabelsOf(a)} :
        (~isPure(ls) /\ ~Improving(RowsOf(a), ls))
            => /\ heap[a].isLeaf
               /\ heap[a].label = Mode(ls)

TieInstance ==
    (Trained /\ fdata = TieScenario.data /\ flabels = TieScenario.labels)
        => /\ heap[root].isLeaf /\ heap[root].label = 0
           /\ \A sample \in Samples(fdata) : predict(heap, root, sample) = 0

\* C7: a node buildTree makes from labels that are not all equal and
\* candidates that all have gain <= 0 is a leaf with the most frequent of its
\* labels, the smallest of them when several are.  For data [[5],[5]],
\* labels [0,1] the root is a leaf with label 0 and predict returns 0 for
\* every sample.
C7_MajorityLeafWhenNothingImproves ==
    /\ [][\A a \in Made : MajorityFallback(a)']_vars
    /\ []TieInstance

\* Labels [2,1,2,1] on equal rows: two labels share the largest count.
C7_Witness ==
    /\ Trained
    /\ fdata = ThreeClassTieScenario.data /\ flabels = ThreeClassTieScenario.labels
    /\ heap[root].isLeaf /\ heap[root].label = 1

(***************************************************************************)
(* C8  Non-empty partitions                                                *)
(***************************************************************************)
Increasing(q) == \A i, j \in DOMAIN q : i < j => q[i] < q[j]

\* An activation holds as many labels as rows, at least one, and they are
\* rows of the dataset in the dataset's order.
CallShape(f) ==
    /\ Len(f.data) = Len(f.labels) /\ Len(f.data) > 0
    /\ Len(f.idx) = Len(f.data) /\ Increasing(f.idx)
    /\ \A k \in DOMAIN f.data :
         f.data[k] = fdata[f.idx[k]] /\ f.labels[k] = flabels[f.idx[k]]

\* The split an activation has taken.
SplitShape(f) ==
    /\ Len(f.leftData) = Len(f.leftLabels) /\ Len(f.leftData) > 0
    /\ Len(f.rightData) = Len(f.rightLabels) /\ Len(f.rightData) > 0
    /\ Len(f.leftIdx) = Len(f.leftData) /\ Len(f.rightIdx) = Len(f.rightData)
    /\ Increasing(f.leftIdx) /\ Increasing(f.rightIdx)
    /\ Range(f.leftIdx) \cup Range(f.rightIdx) = Range(f.idx)
    /\ Range(f.leftIdx) \cap Range(f.rightIdx) = {}
    /\ \A k \in DOMAIN f.leftData :
         f.leftData[k] = fdata[f.leftIdx[k]] /\ f.leftLabels[k] = flabels[f.leftIdx[k]]
    /\ \A k \in DOMAIN f.rightData :
         f.rightData[k] = fdata[f.rightIdx[k]] /\ f.rightLabels[k] = flabels[f.rightIdx[k]]
    /\ \E i \in DOMAIN f.data : f.data[i][f.bestFeature + 1] > f.bestThreshold

\* C8: every buildTree call holds at least one row and as many labels as
\* rows; every split taken has at least one row on each side, the two sides
\* hold every row of the node once, in the node's order, and the threshold
\* is below the largest value of its feature among the node's rows.
C8_PartitionsNonEmpty ==
    \A k \in DOMAIN stack :
        /\ CallShape(stack[k])
        /\ stack[k].phase # "enter" => SplitShape(stack[k])

\* Three nested calls, the innermost on the right side of its caller.
C8_Witness ==
    /\ Len(stack) = 3
    /\ stack[1].phase = "left" /\ stack[2].phase = "right"
    /\ Len(stack[1].data) = 3

(***************************************************************************)
(* C9  Routing of training rows                                            *)
(***************************************************************************)
\* The leaf a sample comes to by the tests row[f] <= t.
RECURSIVE Route(_, _, _)
Route(h, a, sample) ==
    IF h[a].isLeaf THEN a
    ELSE Route(h, IF sample[h[a].featureIndex + 1] <= h[a].threshold
                  THEN h[a].left ELSE h[a].right, sample)

\* C9: predict on training row i ends at the one leaf buildTree made from a
\* partition holding row i, and returns that leaf's label: labels[i] when the
\* partition is pure, its majority label when not; and predict on any
\* sample returns a label of the training set.
C9_TrainingRowsReachTheirLeaf ==
    Trained =>
        /\ \A i \in DOMAIN fdata :
             /\ Cardinality({a \in Leaves(heap, root) : i \in Range(part[a])}) = 1
             /\ i \in Range(part[Route(heap, root, fdata[i])])
             /\ predict(heap, root, fdata[i]) = heap[Route(heap, root, fdata[i])].label
             /\ LET ls == LabelsOf(Route(heap, root, fdata[i]))
                IN predict(heap, root, fdata[i]) = IF isPure(ls) THEN flabels[i] ELSE Mode(ls)
        /\ \A sample \in Samples(fdata) : predict(heap, root, sample) \in Range(flabels)

\* A tree with a leaf of an impure partition below the root, and a training
\* row whose prediction is not its label.
C9_Witness ==
    /\ Trained /\ ~heap[root].isLeaf
    /\ \E a \in Leaves(heap, root) : ~isPure(LabelsOf(a))
    /\ call.op = "predict"
    /\ \E i \in DOMAIN fdata : call.sample = fdata[i] /\ call.ret # flabels[i]

(***************************************************************************)
(* C10  Termination                                                        *)
(***************************************************************************)
Variant ==
    /\ \A k \in 2..Len(stack) : Len(stack[k].data) < Len(stack[k - 1].data)
    /\ Len(stack) <= Len(fdata)
    /\ \A a \in NewNodes :
         heap[a].isLeaf => \A ls \in {LabelsOf(a)} :
                              isPure(ls) \/ ~Improving(RowsOf(a), ls)
    /\ Trained =>
         /\ Cardinality(Leaves(heap, root)) <= Len(fdata)
         /\ \A sample \in Samples(fdata) :
              Comparisons(heap, root, sample) <= Depth(heap, root)

\* C10: a fit that is called returns; every nested buildTree call holds fewer
\* rows than its caller, so calls nest no deeper than the dataset is long;
\* a leaf is made only by the purity stop or the no-improving-split stop;
\* the tree has at most as many leaves as the dataset has rows; and predict
\* makes no more comparisons than the tree is deep.
C10_FitReturns ==
    /\ []Variant
    /\ (pc = "build") ~> (pc = "idle")

C10_Witness ==
    /\ Trained /\ Depth(heap, root) = 2
    /\ Cardinality(Leaves(heap, root)) = Len(fdata)
    /\ call.op = "predict" /\ Comparisons(heap, root, call.sample) = 2
====
